---- MODULE Spec2Model ----
(***************************************************************************)
(* Model of cinder/volume/drivers/rbd.py: the RADOS block device driver.  *)
(*                                                                         *)
(* A driver call is one action.  The call is computed by operators that    *)
(* mirror the driver's functions one to one; they thread a context record  *)
(* c (the backend, the log of calls made, the pending exception, the       *)
(* return value) through the function body, the way the interpreter       *)
(* would.  The caller then takes the outcome (Return) before it makes the  *)
(* next call: the driver is synchronous.                                   *)
(*                                                                         *)
(* Strings are sequences of characters, each character a one-character     *)
(* TLA+ string (a character that has no printable name is named by its     *)
(* code, "xff").  Sizes are counted in units of 1024 bytes (KiB), because  *)
(* TLC's integers are 32 bits wide and 2 GiB in bytes is not one of them;  *)
(* every size the driver computes is a multiple of 1024 bytes.             *)
(* The names of volumes, snapshots and pools are ASCII, so str() and       *)
(* ascii_str() return them as they are.                                    *)
(***************************************************************************)
EXTENDS Integers, Sequences, FiniteSets, TLC

VARIABLES
    cfg,     \* self.configuration and the capabilities of the rbd library
    be,      \* the cluster: the images of the pool, their snapshots and parents
    pre,     \* the cluster as it was when the last call was made
    pc,      \* "idle": the caller may call; "done": a call has ended
    last,    \* the last call: what was called, how it ended, the calls it made
    stream   \* the RBDImageIOWrapper of a backup/restore session, and its image

vars == <<cfg, be, pre, pc, last, stream>>

-----------------------------------------------------------------------------
(* Bounds of the model.                                                    *)

\* the largest volume['size'] / new_size, in GiB, a caller asks for
MaxSizeGiB == 2
\* the largest image, in bytes, a stream is opened on
MaxImageLen == 2
\* the offsets a stream is followed to: -MaxOffset..MaxOffset
MaxOffset == 3

-----------------------------------------------------------------------------
(* Names.                                                                  *)

None == <<"None">>
Falsy(x) == x = None \/ x = <<>>

VolNames == {<<"v">>, <<"w">>}
SnapNames == {<<"s">>}
PoolP == <<"p">>                 \* the configured pool, which exists
PoolQ == <<"q">>                 \* a pool the cluster does not have
FsidLocal == <<"i">>
FsidOther == <<"j">>

True == <<"True">>
False == <<"False">>
NoKwargs == <<>>
NoParent == <<>>
NoExc == "none"

RbdErrors == {"rbd.Error", "rbd.ImageNotFound", "rbd.ImageExists", "rbd.ImageBusy",
              "rbd.ImageHasSnapshots", "rbd.InvalidArgument"}
RadosErrors == {"rados.Error", "rados.ObjectNotFound"}

\* units.GiB and 1024 ** 3, 1024 ** 2, in KiB
GiB == 1024 * 1024
MiB == 1024

-----------------------------------------------------------------------------
(* The context of a running call.                                          *)

Ctx(conf, backend, fault) ==
    [cfg |-> conf, be |-> backend,
     log |-> <<>>,        \* the calls made so far, in order
     n |-> 0,             \* how many calls that can fail were made
     nconn |-> 0,         \* how many rados clients were constructed
     ioctx |-> <<>>,      \* ioctx[k]: the pool client k's ioctx is open on
     fault |-> fault,     \* at: the call that fails (0: none); closeFails
     exc |-> NoExc, ret |-> None]

Ev(call, conn, arg, ok) == [call |-> call, conn |-> conn, arg |-> arg, ok |-> ok]
Logged(c, call, conn, arg, ok) == [c EXCEPT !.log = Append(@, Ev(call, conn, arg, ok))]
Raise(c, e) == [c EXCEPT !.exc = e]
Returning(c, v) == [c EXCEPT !.ret = v]
Failed(c) == c.exc # NoExc

\* F(v), with v evaluated once: `c1 = ...` followed by the statements F
Bind(v, F(_)) == CHOOSE r \in {F(w) : w \in {v}} : TRUE
\* the next statement F, which an exception skips
Then(c, F(_)) == Bind(c, LAMBDA d : IF Failed(d) THEN d ELSE F(d))

\* A call to the backend: the call the fault names fails with `err`, any
\* other fails with `why` when the backend refuses it, and else has `effect`.
BackendCall(c, call, conn, arg, err, why, effect) ==
    LET c1 == [c EXCEPT !.n = @ + 1] IN
    IF c.fault.at = c.n + 1 THEN Raise(Logged(c1, call, conn, arg, FALSE), err)
    ELSE IF why # NoExc THEN Raise(Logged(c1, call, conn, arg, FALSE), why)
    ELSE Logged([c1 EXCEPT !.be = effect], call, conn, arg, TRUE)

-----------------------------------------------------------------------------
(* The cluster, as the driver's calls see it (librados, librbd).           *)

Exists(b, name) == name \in DOMAIN b
HasSnap(b, name, snap) == Exists(b, name) /\ snap \in DOMAIN b[name].snaps
SnapsOf(b, name) == DOMAIN b[name].snaps
Children(b, name, snap) == {w \in DOMAIN b : b[w].parent = <<name, snap>>}
InPool(c, conn) == c.ioctx[conn] = PoolP

Image(size, parent) == [size |-> size, parent |-> parent, snaps |-> <<>>]
WithImage(b, name, img) == [x \in DOMAIN b \cup {name} |-> IF x = name THEN img ELSE b[x]]
WithoutImage(b, name) == [x \in DOMAIN b \ {name} |-> b[x]]
WithSnap(b, name, snap, prot) ==
    [b EXCEPT ![name].snaps =
        [x \in DOMAIN @ \cup {snap} |-> IF x = snap THEN prot ELSE @[x]]]
WithoutSnap(b, name, snap) ==
    [b EXCEPT ![name].snaps = [x \in DOMAIN @ \ {snap} |-> @[x]]]

rados_connect(c, conn) ==
    BackendCall(c, "client.connect", conn, None, "rados.Error", NoExc, c.be)

rados_open_ioctx(c, conn, pool) ==
    Then(BackendCall(c, "client.open_ioctx", conn, pool, "rados.Error",
                     IF pool = PoolP THEN NoExc ELSE "rados.ObjectNotFound", c.be),
         LAMBDA c1 : [c1 EXCEPT !.ioctx[conn] = pool])

\* "closing an ioctx cannot raise an exception", "shutdown cannot raise"
rados_ioctx_close(c, conn) == Logged(c, "ioctx.close", conn, None, TRUE)
rados_shutdown(c, conn) == Logged(c, "client.shutdown", conn, None, TRUE)

rados_get_fsid(c, conn) ==
    Then(BackendCall(c, "cluster.get_fsid", conn, None, "rados.Error", NoExc, c.be),
         LAMBDA c1 : Returning(c1, FsidLocal))

rbd_Image(c, conn, name, snapshot, read_only) ==
    BackendCall(c, "rbd.Image", conn, <<name, snapshot, read_only>>, "rbd.Error",
                IF ~InPool(c, conn) \/ ~Exists(c.be, name) THEN "rbd.ImageNotFound"
                ELSE IF snapshot # None /\ ~HasSnap(c.be, name, snapshot)
                     THEN "rbd.ImageNotFound"
                ELSE NoExc,
                c.be)

\* Closing the image fails when the fault says so; the image is closed last,
\* after any other failure of the call, so the fault names it apart.
rbd_image_close(c, conn) ==
    IF c.fault.closeFails
    THEN Raise(Logged(c, "image.close", conn, None, FALSE), "rbd.Error")
    ELSE Logged(c, "image.close", conn, None, TRUE)

rbd_create(c, conn, name, size, old_format, features) ==
    BackendCall(c, "RBD.create", conn, <<name, size, old_format, features>>, "rbd.Error",
                IF ~InPool(c, conn) THEN "rbd.Error"
                ELSE IF Exists(c.be, name) THEN "rbd.ImageExists" ELSE NoExc,
                WithImage(c.be, name, Image(size, NoParent)))

\* A clone is made of a protected snapshot and depends on it until flattened.
rbd_clone(c, pconn, p_name, p_snap, cconn, c_name) ==
    BackendCall(c, "RBD.clone", cconn, <<p_name, p_snap, c_name>>, "rbd.Error",
                IF ~InPool(c, pconn) \/ ~InPool(c, cconn) THEN "rbd.ImageNotFound"
                ELSE IF ~HasSnap(c.be, p_name, p_snap) THEN "rbd.ImageNotFound"
                ELSE IF ~c.be[p_name].snaps[p_snap] THEN "rbd.InvalidArgument"
                ELSE IF Exists(c.be, c_name) THEN "rbd.ImageExists"
                ELSE NoExc,
                IF Exists(c.be, p_name)
                THEN WithImage(c.be, c_name, Image(c.be[p_name].size, <<p_name, p_snap>>))
                ELSE c.be)

rbd_copy(c, conn, name, dest) ==
    BackendCall(c, "image.copy", conn, dest, "rbd.Error",
                IF Exists(c.be, dest) THEN "rbd.ImageExists" ELSE NoExc,
                WithImage(c.be, dest, Image(c.be[name].size, NoParent)))

\* Flattening copies the parent's blocks into the clone: no parent is left.
rbd_flatten(c, conn, name) ==
    BackendCall(c, "image.flatten", conn, None, "rbd.Error",
                IF c.be[name].parent = NoParent THEN "rbd.InvalidArgument" ELSE NoExc,
                [c.be EXCEPT ![name].parent = NoParent])

rbd_resize(c, conn, name, size) ==
    BackendCall(c, "image.resize", conn, size, "rbd.Error", NoExc,
                [c.be EXCEPT ![name].size = size])

\* An image that has snapshots is not removed.
rbd_remove(c, conn, name) ==
    BackendCall(c, "RBD.remove", conn, name, "rbd.Error",
                IF ~InPool(c, conn) \/ ~Exists(c.be, name) THEN "rbd.ImageNotFound"
                ELSE IF SnapsOf(c.be, name) # {} THEN "rbd.ImageHasSnapshots"
                ELSE NoExc,
                WithoutImage(c.be, name))

rbd_create_snap(c, conn, name, snap) ==
    BackendCall(c, "image.create_snap", conn, snap, "rbd.Error",
                IF HasSnap(c.be, name, snap) THEN "rbd.ImageExists" ELSE NoExc,
                WithSnap(c.be, name, snap, FALSE))

rbd_protect_snap(c, conn, name, snap) ==
    BackendCall(c, "image.protect_snap", conn, snap, "rbd.Error",
                IF ~HasSnap(c.be, name, snap) THEN "rbd.ImageNotFound"
                ELSE IF c.be[name].snaps[snap] THEN "rbd.ImageBusy" ELSE NoExc,
                WithSnap(c.be, name, snap, TRUE))

\* A protected snapshot is not unprotected while a clone depends on it.
rbd_unprotect_snap(c, conn, name, snap) ==
    BackendCall(c, "image.unprotect_snap", conn, snap, "rbd.Error",
                IF ~HasSnap(c.be, name, snap) THEN "rbd.ImageNotFound"
                ELSE IF ~c.be[name].snaps[snap] THEN "rbd.InvalidArgument"
                ELSE IF Children(c.be, name, snap) # {} THEN "rbd.ImageBusy"
                ELSE NoExc,
                WithSnap(c.be, name, snap, FALSE))

\* A protected snapshot is not removed.
rbd_remove_snap(c, conn, name, snap) ==
    BackendCall(c, "image.remove_snap", conn, snap, "rbd.Error",
                IF ~HasSnap(c.be, name, snap) THEN "rbd.ImageNotFound"
                ELSE IF c.be[name].snaps[snap] THEN "rbd.ImageBusy" ELSE NoExc,
                WithoutSnap(c.be, name, snap))

-----------------------------------------------------------------------------
(* RBDDriver._connect_to_rados, _disconnect_from_rados.                    *)

\* try: client.connect(); ioctx = client.open_ioctx(...); return client, ioctx
\* except self.rados.Error: client.shutdown(); raise
ConnectCleanup_NoShutdown(c, conn) == c
ConnectCleanup(c, conn) ==
    IF c.exc \in RadosErrors THEN Raise(rados_shutdown(Raise(c, NoExc), conn), c.exc)
    ELSE c

rados_Rados(c, conn) ==
    Logged([c EXCEPT !.nconn = conn, !.ioctx = Append(@, None)],
           "rados.Rados", conn, None, TRUE)

_connect_to_rados(c, pool) ==
    LET conn == c.nconn + 1
        pool_to_open == IF Falsy(pool) THEN c.cfg.rbd_pool ELSE pool
    IN Bind(Then(rados_connect(rados_Rados(c, conn), conn),
                 LAMBDA c1 : rados_open_ioctx(c1, conn, pool_to_open)),
            LAMBDA c2 :
                IF Failed(c2)
                THEN Logged(ConnectCleanup(c2, conn), "_connect_to_rados", conn, pool, FALSE)
                ELSE Returning(Logged(c2, "_connect_to_rados", conn, pool, TRUE), conn))

_disconnect_from_rados(c, conn) ==
    rados_shutdown(rados_ioctx_close(
        Logged(c, "_disconnect_from_rados", conn, None, TRUE), conn), conn)

-----------------------------------------------------------------------------
(* class RADOSClient, class RBDVolumeProxy: the two context managers.      *)

\* A `with` statement: the exit runs on every way out of the body; an
\* exception the exit raises replaces the one the body raised.
RADOSClient_exit_Forgotten(c, conn) == c
RADOSClient_exit(c, conn) ==
    Raise(_disconnect_from_rados(Raise(c, NoExc), conn), c.exc)

WithRADOSClient(c, pool, Body(_, _)) ==
    Then(_connect_to_rados(c, pool),
         LAMBDA c1 : Bind(Body(Returning(c1, None), c1.ret),
                          LAMBDA c2 : RADOSClient_exit(c2, c1.ret)))

\* except driver.rbd.Error: driver._disconnect_from_rados(client, ioctx); raise
ProxyOpenCleanup_Leak(c, conn) == c
ProxyOpenCleanup(c, conn) ==
    IF c.exc \in RbdErrors THEN Raise(_disconnect_from_rados(Raise(c, NoExc), conn), c.exc)
    ELSE c

RBDVolumeProxy_init(c, name, pool, snapshot, read_only) ==
    Then(_connect_to_rados(c, pool),
         LAMBDA c1 :
             Bind(rbd_Image(c1, c1.ret, name, snapshot, read_only),
                  LAMBDA c2 :
                      IF Failed(c2) THEN ProxyOpenCleanup(c2, c1.ret)
                      ELSE Returning(c2, [conn |-> c1.ret, name |-> name])))

\* try: self.volume.close()  finally: self.driver._disconnect_from_rados(...)
\* self.volume.close(); self.driver._disconnect_from_rados(...), with no finally
RBDVolumeProxy_exit_NoFinally(c, h) ==
    Bind(rbd_image_close(Raise(c, NoExc), h.conn),
         LAMBDA c1 : IF Failed(c1) THEN c1
                     ELSE Raise(_disconnect_from_rados(c1, h.conn), c.exc))
RBDVolumeProxy_exit(c, h) ==
    Bind(rbd_image_close(Raise(c, NoExc), h.conn),
         LAMBDA c1 : Raise(_disconnect_from_rados(Raise(c1, NoExc), h.conn),
                           IF Failed(c1) THEN c1.exc ELSE c.exc))

WithRBDVolumeProxy(c, name, pool, snapshot, read_only, Body(_, _)) ==
    Then(RBDVolumeProxy_init(c, name, pool, snapshot, read_only),
         LAMBDA c1 : Bind(Body(Returning(c1, None), c1.ret),
                          LAMBDA c2 : RBDVolumeProxy_exit(c2, c1.ret)))

-----------------------------------------------------------------------------
(* RBDDriver: the volume commands.                                         *)

RBD_FEATURE_LAYERING == 1

_supports_layering_Never(c) == FALSE
_supports_layering(c) == c.cfg.layering

check_for_setup_error(c, rados_imported) ==
    IF ~rados_imported THEN Raise(c, "exception.VolumeBackendAPIException")
    ELSE Bind(WithRADOSClient(c, None, LAMBDA d, conn : d),
              LAMBDA c1 : IF c1.exc \in RadosErrors
                          THEN Raise(c1, "exception.VolumeBackendAPIException")
                          ELSE c1)

create_cloned_volume(c, volume, src_vref) ==
    WithRBDVolumeProxy(c, src_vref.name, None, None, TRUE,
                       LAMBDA d, vol : rbd_copy(d, vol.conn, vol.name, volume.name))

CreateSizeNoDefault(volume) == volume.size * GiB
CreateSize(volume) ==
    IF volume.size = 0 THEN 100 * MiB ELSE volume.size * GiB

create_volume(c, volume) ==
    LET size == CreateSize(volume)
        old_format == ~_supports_layering(c)
        features == IF _supports_layering(c) THEN RBD_FEATURE_LAYERING ELSE 0
    IN WithRADOSClient(c, None,
           LAMBDA d, client : rbd_create(d, client, volume.name, size, old_format, features))

_flatten(c, pool, volume_name) ==
    WithRBDVolumeProxy(c, volume_name, pool, None, FALSE,
                       LAMBDA d, vol : rbd_flatten(d, vol.conn, vol.name))

\* features=self.rbd.RBD_FEATURE_LAYERING is looked up inside both scopes
\* and is no attribute of an rbd library without layering.
_clone(c, volume, src_pool, src_image, src_snap) ==
    WithRADOSClient(c, src_pool,
        LAMBDA d, src_client :
            WithRADOSClient(d, None,
                LAMBDA e, dest_client :
                    IF ~e.cfg.layering THEN Raise(e, "AttributeError")
                    ELSE rbd_clone(e, src_client, src_image, src_snap,
                                   dest_client, volume.name)))

\* size = kwargs.get('size', None); if not size: size = int(volume['size']) * units.GiB
\* kwargs is [size |-> n] or NoKwargs; `not size` holds of None and of 0
ResizeSize(volume, kwargs) ==
    IF "size" \in DOMAIN kwargs /\ kwargs.size # 0 THEN kwargs.size
    ELSE volume.size * GiB

_resize(c, volume, kwargs) ==
    WithRBDVolumeProxy(c, volume.name, None, None, FALSE,
                       LAMBDA d, vol : rbd_resize(d, vol.conn, vol.name,
                                                  ResizeSize(volume, kwargs)))

\* the steps in another order: clone, resize, flatten
create_volume_from_snapshot_ResizeFirst(c, volume, snapshot) ==
    Then(Then(_clone(c, volume, c.cfg.rbd_pool, snapshot.volume_name, snapshot.name),
              LAMBDA d : IF volume.size # 0 THEN _resize(d, volume, NoKwargs) ELSE d),
         LAMBDA d : IF d.cfg.rbd_flatten_volume_from_snapshot
                    THEN _flatten(d, d.cfg.rbd_pool, volume.name)
                    ELSE d)
create_volume_from_snapshot(c, volume, snapshot) ==
    Then(Then(_clone(c, volume, c.cfg.rbd_pool, snapshot.volume_name, snapshot.name),
              LAMBDA d : IF d.cfg.rbd_flatten_volume_from_snapshot
                         THEN _flatten(d, d.cfg.rbd_pool, volume.name)
                         ELSE d),
         LAMBDA d : IF volume.size # 0 THEN _resize(d, volume, NoKwargs) ELSE d)

\* except self.rbd.ImageHasSnapshots: raise exception.VolumeIsBusy(...)
RemoveBusySwallowed(c) ==
    IF c.exc = "rbd.ImageHasSnapshots" THEN Raise(c, NoExc) ELSE c
RemoveBusy(c) ==
    IF c.exc = "rbd.ImageHasSnapshots" THEN Raise(c, "exception.VolumeIsBusy") ELSE c

delete_volume(c, volume) ==
    WithRADOSClient(c, None,
                    LAMBDA d, client : RemoveBusy(rbd_remove(d, client, volume.name)))

create_snapshot(c, snapshot) ==
    WithRBDVolumeProxy(c, snapshot.volume_name, None, None, FALSE,
        LAMBDA d, volume :
            Then(rbd_create_snap(d, volume.conn, volume.name, snapshot.name),
                 LAMBDA e : IF _supports_layering(e)
                            THEN rbd_protect_snap(e, volume.conn, volume.name,
                                                  snapshot.name)
                            ELSE e))

\* except self.rbd.ImageBusy: raise exception.SnapshotIsBusy(snapshot_name=snap)
UnprotectBusyUntranslated(c) == c
UnprotectBusy(c) ==
    IF c.exc = "rbd.ImageBusy" THEN Raise(c, "exception.SnapshotIsBusy") ELSE c

UnprotectFirstSkipped(c, volume, snap) == c
UnprotectFirst(c, volume, snap) ==
    IF _supports_layering(c)
    THEN UnprotectBusy(rbd_unprotect_snap(c, volume.conn, volume.name, snap))
    ELSE c

delete_snapshot(c, snapshot) ==
    WithRBDVolumeProxy(c, snapshot.volume_name, None, None, FALSE,
        LAMBDA d, volume :
            Then(UnprotectFirst(d, volume, snapshot.name),
                 LAMBDA e : rbd_remove_snap(e, volume.conn, volume.name, snapshot.name)))

-----------------------------------------------------------------------------
(* RBDDriver._parse_location and what it calls on strings.                 *)

Prefix == <<"r", "b", "d", ":", "/", "/">>
HexDigits == {"2", "f"}          \* the hexadecimal digits among the characters used

StartsWith(s, p) == Len(s) >= Len(p) /\ SubSeq(s, 1, Len(p)) = p
Drop(s, k) == SubSeq(s, k + 1, Len(s))

\* chr(int(h1 + h2, 16))
HexToChr(h1, h2) ==
    CASE h1 = "2" /\ h2 = "f" -> "/"
      [] h1 = "2" /\ h2 = "2" -> "x22"
      [] h1 = "f" /\ h2 = "2" -> "xf2"
      [] h1 = "f" /\ h2 = "f" -> "xff"

\* urllib.unquote: '%' and two hexadecimal digits become the character of
\* that code; any other '%' stays.
RECURSIVE Unquote(_)
Unquote(s) ==
    IF s = <<>> THEN <<>>
    ELSE IF s[1] = "%" /\ Len(s) >= 3 /\ s[2] \in HexDigits /\ s[3] \in HexDigits
         THEN <<HexToChr(s[2], s[3])>> \o Unquote(Drop(s, 3))
    ELSE <<s[1]>> \o Unquote(Drop(s, 1))

\* str.split: the pieces between the separators, the empty ones too
RECURSIVE Split(_, _)
Split(s, sep) ==
    IF \A i \in 1..Len(s) : s[i] # sep THEN <<s>>
    ELSE LET k == CHOOSE i \in 1..Len(s) : s[i] = sep /\ \A j \in 1..(i - 1) : s[j] # sep
         IN <<SubSeq(s, 1, k - 1)>> \o Split(Drop(s, k), sep)

\* the pieces as split() with no separator would keep them: no empty ones
PiecesBlankDropped(location) ==
    LET parts == SelectSeq(Split(Drop(location, Len(Prefix)), "/"), LAMBDA q : q # <<>>)
    IN [i \in 1..Len(parts) |-> Unquote(parts[i])]
Pieces(location) ==
    LET parts == Split(Drop(location, Len(Prefix)), "/")
    IN [i \in 1..Len(parts) |-> Unquote(parts[i])]

_parse_location(c, location) ==
    IF ~StartsWith(location, Prefix) THEN Raise(c, "exception.ImageUnacceptable")
    ELSE IF \E i \in 1..Len(Pieces(location)) : Pieces(location)[i] = <<>>
         THEN Raise(c, "exception.ImageUnacceptable")
    ELSE IF Len(Pieces(location)) # 4 THEN Raise(c, "exception.ImageUnacceptable")
    ELSE Returning(c, Pieces(location))

-----------------------------------------------------------------------------
(* RBDDriver: cloning an image, backup and restore, extending.             *)

_get_fsid(c) ==
    WithRADOSClient(c, None, LAMBDA d, client : rados_get_fsid(d, client))

\* except self.rbd.Error as e: ... return False
OpenFailed(c) ==
    IF c.exc \in RbdErrors THEN Returning(Raise(c, NoExc), False) ELSE c

CanRead(c, pieces) ==
    OpenFailed(WithRBDVolumeProxy(c, pieces[3], pieces[2], pieces[4], TRUE,
                                  LAMBDA d, vol : Returning(d, True)))

_is_cloneable(c, image_location) ==
    Bind(_parse_location(c, image_location),
         LAMBDA c1 :
             IF c1.exc = "exception.ImageUnacceptable"
             THEN Returning(Raise(c1, NoExc), False)
             ELSE Then(_get_fsid(c1),
                       LAMBDA c2 : IF c2.ret # c1.ret[1] THEN Returning(c2, False)
                                   ELSE CanRead(c2, c1.ret)))

Cloned == <<<<"provider_location", None>>, True>>

clone_image(c, volume, image_location) ==
    IF image_location = None THEN Returning(c, False)
    ELSE Then(_is_cloneable(c, image_location),
              LAMBDA c1 :
                  IF c1.ret = False THEN Returning(c1, False)
                  ELSE Then(Then(Then(_parse_location(c1, image_location),
                                      LAMBDA c2 : _clone(c2, volume, c2.ret[2], c2.ret[3],
                                                         c2.ret[4])),
                                 LAMBDA c3 : _resize(c3, volume, NoKwargs)),
                            LAMBDA c4 : Returning(c4, Cloned)))

\* A call out of the driver: the volume database, the backup service.
ExternalCall(c, call, conn, err) == BackendCall(c, call, conn, None, err, NoExc, c.be)

backup_volume(c, backup) ==
    Then(ExternalCall(c, "db.volume_get", 0, "exception.VolumeNotFound"),
         LAMBDA d :
           WithRBDVolumeProxy(d, backup.volume_id, d.cfg.rbd_pool, None, TRUE,
               LAMBDA e, rbd_image :
                   ExternalCall(e, "backup_service.backup", rbd_image.conn, "Exception")))

restore_backup(c, backup, volume) ==
    WithRBDVolumeProxy(c, volume.name, c.cfg.rbd_pool, None, FALSE,
        LAMBDA e, rbd_image :
            ExternalCall(e, "backup_service.restore", rbd_image.conn, "Exception"))

\* except Exception: ... raise exception.VolumeBackendAPIException(data=msg)
extend_volume(c, volume, new_size) ==
    Bind(_resize(c, volume, [size |-> new_size * GiB]),
         LAMBDA c1 : IF Failed(c1) THEN Raise(c1, "exception.VolumeBackendAPIException")
                     ELSE c1)

-----------------------------------------------------------------------------
(* The calls a volume manager makes, and what it calls them with.          *)

Volumes == [name : VolNames, size : 0..MaxSizeGiB]
Snapshots == [volume_name : VolNames, name : SnapNames]
Configurations ==
    [layering : BOOLEAN, rbd_flatten_volume_from_snapshot : BOOLEAN, rbd_pool : {PoolP}]

Location(fsid, pool, image, snap) ==
    Prefix \o fsid \o <<"/">> \o pool \o <<"/">> \o image \o <<"/">> \o snap

\* image locations: snapshots of this cluster's pool, of another cluster, of
\* a pool the cluster does not have; an image of another store
Locations ==
    {Location(FsidLocal, PoolP, <<"v">>, <<"s">>),
     Location(FsidOther, PoolP, <<"v">>, <<"s">>),
     Location(FsidLocal, PoolQ, <<"v">>, <<"s">>),
     <<"f", "i", "l", "e", ":", "/", "/", "v">>}

\* locations built of a scheme and '/'-separated components: empty ones,
\* plain ones, ones with escapes ('%2f', '%ff') and with a '%' that is none
MaxComps == 5
Schemes == {Prefix, <<"f", "i", "l", "e", ":", "/", "/">>, <<>>}
Components ==
    {<<>>, <<"v">>, <<"%", "2", "f">>, <<"s", "%", "f", "f">>, <<"%", "2">>}
ComponentLists == UNION {[1..n -> Components] : n \in 1..MaxComps}
RECURSIVE Join(_, _)
Join(comps, sep) ==
    IF Len(comps) = 1 THEN comps[1]
    ELSE comps[1] \o <<sep>> \o Join(Tail(comps), sep)

NoFault == [at |-> 0, closeFails |-> FALSE]

\* Every call the fault-free run makes is a call that may fail; closing the
\* image may fail besides, in a call that opens one.
Faults(c) ==
    [at : 0..c.n,
     closeFails : IF \E i \in 1..Len(c.log) : c.log[i].call = "image.close"
                  THEN BOOLEAN ELSE {FALSE}]

Start(f) == Ctx(cfg, be, f)

NoLast == [op |-> "none", args |-> <<>>, exc |-> NoExc, ret |-> None, log |-> <<>>,
           fault |-> NoFault]
NoStream == [state |-> "none", offset |-> 0, img |-> <<>>, hasFlush |-> TRUE,
             prev |-> [offset |-> 0, img |-> <<>>], scen |-> 0]

Finish(op, args, c) ==
    /\ pc = "idle"
    /\ pc' = "done"
    /\ pre' = be
    /\ be' = c.be
    /\ last' = [op |-> op, args |-> args, exc |-> c.exc,
                ret |-> IF Failed(c) THEN None ELSE c.ret,
                log |-> c.log, fault |-> c.fault]
    /\ UNCHANGED <<cfg, stream>>

CheckForSetupError ==
    /\ pc = "idle"
    /\ \E imported \in BOOLEAN :
       \E c0 \in {check_for_setup_error(Start(NoFault), imported)} : \E f \in Faults(c0) :
           Finish("check_for_setup_error", <<imported>>,
                  check_for_setup_error(Start(f), imported))

CreateVolume ==
    /\ pc = "idle"
    /\ \E volume \in Volumes : \E c0 \in {create_volume(Start(NoFault), volume)} : \E f \in Faults(c0) :
           Finish("create_volume", <<volume>>, create_volume(Start(f), volume))

CreateClonedVolume ==
    /\ pc = "idle"
    /\ \E volume \in [name : VolNames], src \in VolNames :
       \E c0 \in {create_cloned_volume(Start(NoFault), volume, [name |-> src])} : \E f \in Faults(c0) :
           Finish("create_cloned_volume", <<volume, src>>,
                  create_cloned_volume(Start(f), volume, [name |-> src]))

CreateVolumeFromSnapshot ==
    /\ pc = "idle"
    /\ \E volume \in Volumes, snapshot \in Snapshots :
       \E c0 \in {create_volume_from_snapshot(Start(NoFault), volume, snapshot)} : \E f \in Faults(c0) :
           Finish("create_volume_from_snapshot", <<volume, snapshot>>,
                  create_volume_from_snapshot(Start(f), volume, snapshot))

DeleteVolume ==
    /\ pc = "idle"
    /\ \E volume \in [name : VolNames] :
       \E c0 \in {delete_volume(Start(NoFault), volume)} : \E f \in Faults(c0) :
           Finish("delete_volume", <<volume>>, delete_volume(Start(f), volume))

CreateSnapshot ==
    /\ pc = "idle"
    /\ \E snapshot \in Snapshots : \E c0 \in {create_snapshot(Start(NoFault), snapshot)} : \E f \in Faults(c0) :
           Finish("create_snapshot", <<snapshot>>, create_snapshot(Start(f), snapshot))

DeleteSnapshot ==
    /\ pc = "idle"
    /\ \E snapshot \in Snapshots : \E c0 \in {delete_snapshot(Start(NoFault), snapshot)} : \E f \in Faults(c0) :
           Finish("delete_snapshot", <<snapshot>>, delete_snapshot(Start(f), snapshot))

Flatten ==
    /\ pc = "idle"
    /\ \E name \in VolNames : \E c0 \in {_flatten(Start(NoFault), cfg.rbd_pool, name)} : \E f \in Faults(c0) :
           Finish("_flatten", <<cfg.rbd_pool, name>>, _flatten(Start(f), cfg.rbd_pool, name))

GetFsid ==
    /\ pc = "idle"
    /\ \E c0 \in {_get_fsid(Start(NoFault))} : \E f \in Faults(c0) :
           Finish("_get_fsid", <<>>, _get_fsid(Start(f)))

IsCloneable ==
    /\ pc = "idle"
    /\ \E loc \in Locations : \E c0 \in {_is_cloneable(Start(NoFault), loc)} : \E f \in Faults(c0) :
           Finish("_is_cloneable", <<loc>>, _is_cloneable(Start(f), loc))

CloneImage ==
    /\ pc = "idle"
    /\ \E volume \in Volumes, loc \in Locations \cup {None} :
       \E c0 \in {clone_image(Start(NoFault), volume, loc)} : \E f \in Faults(c0) :
           Finish("clone_image", <<volume, loc>>, clone_image(Start(f), volume, loc))

BackupVolume ==
    /\ pc = "idle"
    /\ \E name \in VolNames :
       \E c0 \in {backup_volume(Start(NoFault), [volume_id |-> name])} : \E f \in Faults(c0) :
           Finish("backup_volume", <<name>>, backup_volume(Start(f), [volume_id |-> name]))

RestoreBackup ==
    /\ pc = "idle"
    /\ \E name \in VolNames :
       \E c0 \in {restore_backup(Start(NoFault), [volume_id |-> name], [name |-> name])} : \E f \in Faults(c0) :
           Finish("restore_backup", <<name>>,
                  restore_backup(Start(f), [volume_id |-> name], [name |-> name]))

ExtendVolume ==
    /\ pc = "idle"
    /\ \E volume \in Volumes, new_size \in 0..MaxSizeGiB :
       \E c0 \in {extend_volume(Start(NoFault), volume, new_size)} : \E f \in Faults(c0) :
           Finish("extend_volume", <<volume, new_size>>,
                  extend_volume(Start(f), volume, new_size))

\* The caller takes the outcome of the call.
-----------------------------------------------------------------------------
(* RBDImageIOWrapper: the image it wraps, then the wrapper.  A string of   *)
(* bytes is a sequence of them; an optional integer is <<>> or <<n>>.      *)

Bytes == {"a", "b"}
Images == UNION {[1..n -> Bytes] : n \in 0..MaxImageLen}

StreamCtx(s, fault) ==
    [offset |-> s.offset,      \* self._offset
     img |-> s.img,            \* the content of self.rbd_image
     hasFlush |-> s.hasFlush,  \* this librbd's images have flush()
     log |-> <<>>, n |-> 0, fault |-> fault, exc |-> NoExc, ret |-> None]

\* A call on the image: the call the fault names fails with rbd.Error, any
\* other fails with `why` when librbd refuses it, and else returns `ret`
\* and leaves the image holding `img`.
ImageCall(c, call, arg, why, ret, img) ==
    LET c1 == [c EXCEPT !.n = @ + 1] IN
    IF c.fault.at = c.n + 1 THEN Raise(Logged(c1, call, 0, arg, FALSE), "rbd.Error")
    ELSE IF why # NoExc THEN Raise(Logged(c1, call, 0, arg, FALSE), why)
    ELSE Returning([Logged(c1, call, 0, arg, TRUE) EXCEPT !.img = img], ret)

OutOfImage(c, offset, length) ==
    IF offset < 0 \/ length < 0 \/ offset + length > Len(c.img)
    THEN "rbd.InvalidArgument" ELSE NoExc

image_size(c) == ImageCall(c, "image.size", None, NoExc, <<Len(c.img)>>, c.img)
image_read(c, offset, length) ==
    ImageCall(c, "image.read", <<offset, length>>, OutOfImage(c, offset, length),
              SubSeq(c.img, offset + 1, offset + length), c.img)
image_write(c, data, offset) ==
    ImageCall(c, "image.write", <<data, offset>>, OutOfImage(c, offset, Len(data)), None,
              [i \in 1..Len(c.img) |->
                  IF offset < i /\ i <= offset + Len(data) THEN data[i - offset]
                  ELSE c.img[i]])
image_flush(c) ==
    IF ~c.hasFlush THEN Raise(c, "AttributeError")
    ELSE ImageCall(c, "image.flush", None, NoExc, None, c.img)

_inc_offset(c, length) == [c EXCEPT !.offset = @ + length]

\* if (offset == total)
AtEndNever(offset, total) == FALSE
AtEnd(offset, total) == offset = total

\* if length is None: ...; if (offset + length) > total: ...
ReadLengthUnclamped(offset, total, length) ==
    IF Len(length) = 0 THEN total ELSE length[1]
ReadLength(offset, total, length) ==
    LET given == IF Len(length) = 0 THEN total ELSE length[1]
    IN IF offset + given > total THEN total - offset ELSE given

read(c, length) ==
    Then(image_size(c),
         LAMBDA c1 :
             IF AtEnd(c.offset, c1.ret[1]) THEN Returning(c1, <<>>)
             ELSE Bind(ReadLength(c.offset, c1.ret[1], length),
                       LAMBDA len : image_read(_inc_offset(c1, len), c.offset, len)))

\* write that leaves self._offset where it was
write_OffsetKept(c, data) ==
    Then(image_write(c, data, c.offset), LAMBDA c1 : Returning(c1, None))
write(c, data) ==
    Then(image_write(c, data, c.offset),
         LAMBDA c1 : Returning(_inc_offset(c1, Len(data)), None))

\* if (new_offset < 0): raise IOError(...); self._offset = new_offset
SetOffset(c, new_offset) ==
    IF new_offset < 0 THEN Raise(c, "IOError")
    ELSE Returning([c EXCEPT !.offset = new_offset], None)

\* whence 2 reads self.volume, an attribute the wrapper does not have
seek(c, offset, whence) ==
    IF whence = 0 THEN SetOffset(c, offset)
    ELSE IF whence = 1 THEN SetOffset(c, c.offset + offset)
    ELSE IF whence = 2 THEN Raise(c, "AttributeError")
    ELSE Raise(c, "IOError")

tell(c) == Returning(c, <<c.offset>>)

flush(c) ==
    Bind(image_flush(c),
         LAMBDA c1 : IF c1.exc = "AttributeError"
                     THEN Returning(Raise(Logged(c1, "RBD.version", 0, None, TRUE), NoExc),
                                    None)
                     ELSE c1)

fileno(c) == Raise(c, "IOError")
\* io.IOBase.close, which the wrapper overrides: flush, then mark closed
close_Inherited(c) == flush(c)
close(c) == Returning(c, None)

\* Where a session stands in: read at the end of the image (1), then
\* seek(0) (2), then read() (3).
Session(op, args, c) ==
    IF stream.scen = 2 /\ op = "read" /\ args = <<<<>>>> THEN 3
    ELSE IF stream.scen = 1 /\ op = "seek" /\ ~Failed(c) /\ args = <<0, 0>> THEN 2
    ELSE IF op = "read" /\ ~Failed(c) /\ stream.offset = Len(stream.img) THEN 1
    ELSE 0

StreamFinish(op, args, c) ==
    /\ c.offset \in -MaxOffset..MaxOffset
    /\ pc' = "done"
    /\ last' = [op |-> op, args |-> args, exc |-> c.exc,
                ret |-> IF Failed(c) THEN None ELSE c.ret,
                log |-> c.log, fault |-> c.fault]
    /\ stream' = [stream EXCEPT !.offset = c.offset, !.img = c.img,
                                !.prev = [offset |-> stream.offset, img |-> stream.img],
                                !.scen = Session(op, args, c)]
    /\ UNCHANGED <<cfg, be, pre>>

\* rbd_fd = RBDImageIOWrapper(rbd_image)
OpenStream ==
    /\ pc = "idle"
    /\ stream.state = "none"
    /\ \E img \in Images, hasFlush \in BOOLEAN :
           stream' = [NoStream EXCEPT !.state = "open", !.img = img,
                                      !.hasFlush = hasFlush,
                                      !.prev = [offset |-> 0, img |-> img]]
    /\ pc' = "done"
    /\ last' = [NoLast EXCEPT !.op = "RBDImageIOWrapper"]
    /\ UNCHANGED <<cfg, be, pre>>

Lengths == {<<>>} \cup {<<n>> : n \in -1..(MaxImageLen + 1)}

StreamRead ==
    /\ pc = "idle"
    /\ stream.state = "open"
    /\ \E length \in Lengths :
       \E c0 \in {read(StreamCtx(stream, NoFault), length)} : \E f \in Faults(c0) :
           StreamFinish("read", <<length>>, read(StreamCtx(stream, f), length))

StreamWrite ==
    /\ pc = "idle"
    /\ stream.state = "open"
    /\ \E data \in Images :
       \E c0 \in {write(StreamCtx(stream, NoFault), data)} : \E f \in Faults(c0) :
           StreamFinish("write", <<data>>, write(StreamCtx(stream, f), data))

StreamSeek ==
    /\ pc = "idle"
    /\ stream.state = "open"
    /\ \E offset \in -1..(MaxImageLen + 1), whence \in 0..3 :
           StreamFinish("seek", <<offset, whence>>,
                        seek(StreamCtx(stream, NoFault), offset, whence))

StreamTell ==
    /\ pc = "idle"
    /\ stream.state = "open"
    /\ StreamFinish("tell", <<>>, tell(StreamCtx(stream, NoFault)))

StreamFlush ==
    /\ pc = "idle"
    /\ stream.state = "open"
    /\ \E c0 \in {flush(StreamCtx(stream, NoFault))} : \E f \in Faults(c0) :
           StreamFinish("flush", <<>>, flush(StreamCtx(stream, f)))

StreamFileno ==
    /\ pc = "idle"
    /\ stream.state = "open"
    /\ StreamFinish("fileno", <<>>, fileno(StreamCtx(stream, NoFault)))

StreamClose ==
    /\ pc = "idle"
    /\ stream.state = "open"
    /\ StreamFinish("close", <<>>, close(StreamCtx(stream, NoFault)))

\* The with block of backup_volume / restore_backup ends: self.volume.close().
\* The service's call has returned, and nothing holds rbd_fd any more.
CloseVolume ==
    /\ pc = "idle"
    /\ stream.state = "open"
    /\ pc' = "done"
    /\ last' = [NoLast EXCEPT !.op = "RBDVolumeProxy.__exit__",
                              !.log = <<Ev("image.close", 0, None, TRUE)>>]
    /\ stream' = [stream EXCEPT !.state = "closed",
                                !.prev = [offset |-> stream.offset, img |-> stream.img],
                                !.scen = 0]
    /\ UNCHANGED <<cfg, be, pre>>

\* rbd_fd is collected after its image was closed: io.IOBase.__del__ calls
\* self.close()
StreamDel ==
    /\ pc = "idle"
    /\ stream.state = "closed"
    /\ \E c \in {close(StreamCtx(stream, NoFault))} :
          /\ pc' = "done"
          /\ last' = [op |-> "close", args |-> <<>>, exc |-> c.exc,
                      ret |-> IF Failed(c) THEN None ELSE c.ret,
                      log |-> c.log, fault |-> c.fault]
          /\ stream' = [stream EXCEPT !.state = "deleted", !.offset = c.offset,
                                      !.img = c.img,
                                      !.prev = [offset |-> stream.offset, img |-> stream.img],
                                      !.scen = 0]
    /\ UNCHANGED <<cfg, be, pre>>

ParseLocation ==
    /\ pc = "idle"
    /\ \E scheme \in Schemes, comps \in ComponentLists :
           Finish("_parse_location", <<scheme \o Join(comps, "/"), scheme, comps>>,
                  _parse_location(Start(NoFault), scheme \o Join(comps, "/")))

Return ==
    /\ pc = "done"
    /\ pc' = "idle"
    /\ pre' = be
    /\ last' = NoLast
    /\ UNCHANGED <<cfg, be, stream>>

Init ==
    /\ cfg \in Configurations
    /\ be = <<>>
    /\ pre = <<>>
    /\ pc = "idle"
    /\ last = NoLast
    /\ stream = NoStream

Next ==
    \/ CheckForSetupError
    \/ CreateVolume
    \/ CreateClonedVolume
    \/ CreateVolumeFromSnapshot
    \/ DeleteVolume
    \/ CreateSnapshot
    \/ DeleteSnapshot
    \/ Flatten
    \/ GetFsid
    \/ IsCloneable
    \/ CloneImage
    \/ BackupVolume
    \/ RestoreBackup
    \/ ExtendVolume
    \/ Return

Spec == Init /\ [][Next]_vars

\* _parse_location alone, on locations of every shape
NextParse == ParseLocation \/ Return
SpecParse == Init /\ [][NextParse]_vars

\* one RBDImageIOWrapper and the calls made on it
NextStream ==
    \/ OpenStream
    \/ StreamRead
    \/ StreamWrite
    \/ StreamSeek
    \/ StreamTell
    \/ StreamFlush
    \/ StreamFileno
    \/ StreamClose
    \/ CloseVolume
    \/ StreamDel
    \/ Return
SpecStream == Init /\ [][NextStream]_vars

-----------------------------------------------------------------------------
(* What the claims speak of: the calls the last driver call made.          *)

Log == last.log
At(i, call) == i \in 1..Len(Log) /\ Log[i].call = call
Events(call) == {i \in 1..Len(Log) : Log[i].call = call}
EventsOf(call, conn) == {i \in Events(call) : Log[i].conn = conn}
Clients == {Log[i].conn : i \in Events("rados.Rados")}
Acquired == {Log[i].conn : i \in {j \in Events("_connect_to_rados") : Log[j].ok}}
Opened == {Log[i].conn : i \in {j \in Events("rbd.Image") : Log[j].ok}}
Done(op) == pc = "done" /\ last.op = op
Unfaulted == last.fault = NoFault

\* The release of connection k, whole and in order, from place i of the log.
ReleasedAt(i, k) ==
    /\ At(i, "_disconnect_from_rados") /\ Log[i].conn = k
    /\ At(i + 1, "ioctx.close") /\ Log[i + 1].conn = k
    /\ At(i + 2, "client.shutdown") /\ Log[i + 2].conn = k

(* C1: when a driver call returns or raises, every connection it acquired *)
(* (every _connect_to_rados that returned) has been released by exactly   *)
(* one _disconnect_from_rados, after it was acquired; a connection that   *)
(* was not acquired is not released; so the two counts agree.             *)
C1_ReleasedExactlyOnce ==
    pc = "done" =>
        /\ \A k \in Clients :
              /\ Cardinality(EventsOf("_disconnect_from_rados", k))
                    = IF k \in Acquired THEN 1 ELSE 0
              /\ Cardinality(EventsOf("ioctx.close", k)) = IF k \in Acquired THEN 1 ELSE 0
              /\ Cardinality(EventsOf("client.shutdown", k)) = 1
              /\ \A i \in EventsOf("_disconnect_from_rados", k) :
                    \E j \in EventsOf("_connect_to_rados", k) : j < i
        /\ Cardinality(Acquired) = Cardinality(Events("_disconnect_from_rados"))

\* create_volume_from_snapshot cloned and flattened, and its resize failed:
\* four connections were acquired and the call raised
C1_Witness ==
    /\ Done("create_volume_from_snapshot")
    /\ last.exc = "rbd.Error"
    /\ Cardinality(Acquired) = 4
    /\ \E i \in Events("image.resize") : ~Log[i].ok

(* C2: when RBDVolumeProxy has acquired its connection and opening the    *)
(* image fails, the connection is released at once, before anything else  *)
(* happens, and exactly once; no later call uses it.                      *)
C2_OpenFailureReleases ==
    pc = "done" =>
        \A i \in Events("rbd.Image") :
            ~Log[i].ok =>
                /\ Log[i].conn \in Acquired
                /\ ReleasedAt(i + 1, Log[i].conn)
                /\ \A j \in (i + 4)..Len(Log) : Log[j].conn # Log[i].conn
                /\ EventsOf("image.close", Log[i].conn) = {}

C2_Witness ==
    /\ Done("create_snapshot")
    /\ last.exc = "rbd.ImageNotFound"
    /\ \E i \in Events("rbd.Image") : ~Log[i].ok /\ Log[i].conn \in Acquired

(* C3: in _connect_to_rados, when the client connected and opening the    *)
(* pool fails, the client is shut down before the error is raised; every  *)
(* acquire either returns a connected client with its pool open and not   *)
(* shut down, or raises with the client shut down.                        *)
C3_AcquireLeavesNoClient ==
    pc = "done" =>
        /\ \A i \in Events("client.open_ioctx") :
              ~Log[i].ok =>
                  /\ At(i + 1, "client.shutdown") /\ Log[i + 1].conn = Log[i].conn
                  /\ At(i + 2, "_connect_to_rados") /\ ~Log[i + 2].ok
        /\ \A i \in Events("_connect_to_rados") :
              LET k == Log[i].conn
                  before(call) == {j \in EventsOf(call, k) : j < i}
              IN IF Log[i].ok
                 THEN /\ \E j \in before("client.connect") : Log[j].ok
                      /\ \E j \in before("client.open_ioctx") : Log[j].ok
                      /\ before("client.shutdown") = {}
                 ELSE /\ Cardinality(before("client.shutdown")) = 1
                      /\ last.exc # NoExc

\* the pool of the image location does not exist: the client connected,
\* open_ioctx failed
C3_Witness ==
    /\ Done("_is_cloneable")
    /\ last.exc = "rados.ObjectNotFound"
    /\ \E i \in Events("client.open_ioctx") :
          /\ ~Log[i].ok
          /\ \E j \in EventsOf("client.connect", Log[i].conn) : Log[j].ok /\ j < i

(* C4: leaving the scope of a volume handle closes the image and then     *)
(* releases the connection (ioctx closed, then client shut down), in that *)
(* order, whether the body raised or not and whether closing the image    *)
(* failed or not; a handle that was opened is closed once, and its        *)
(* connection is released with it and not otherwise.                      *)
C4_CloseThenRelease ==
    pc = "done" =>
        /\ \A i \in Events("image.close") : ReleasedAt(i + 1, Log[i].conn)
        /\ \A k \in Opened :
              /\ Cardinality(EventsOf("image.close", k)) = 1
              /\ Cardinality(EventsOf("_disconnect_from_rados", k)) = 1
        /\ \A i \in Events("image.close") :
              \E j \in EventsOf("rbd.Image", Log[i].conn) : Log[j].ok /\ j < i

\* the body raised (create_snap failed) and closing the image failed too
C4_Witness ==
    /\ Done("create_snapshot")
    /\ \E i \in Events("image.create_snap") : ~Log[i].ok
    /\ \E i \in Events("image.close") : ~Log[i].ok /\ ReleasedAt(i + 1, Log[i].conn)

(* C5: create_volume asks the backend for an image of exactly 100 MiB     *)
(* when volume['size'] is 0 and of exactly N GiB when it is N > 0 (in     *)
(* KiB: 102400 and N * 1048576); RBD.create is passed no other size.      *)
C5_CreateSize ==
    pc = "done" =>
        \A i \in Events("RBD.create") :
            /\ last.op = "create_volume"
            /\ Log[i].arg[2] = IF last.args[1].size = 0 THEN 102400
                               ELSE last.args[1].size * 1048576

C5_Witness ==
    /\ Done("create_volume")
    /\ last.args[1].size = 0
    /\ last.exc = NoExc
    /\ be[last.args[1].name].size = 102400

(* C6: delete_volume of a volume that has snapshots raises VolumeIsBusy   *)
(* (when it reaches the backend) and leaves the cluster as it was; of a   *)
(* volume that has none, it removes the volume; no call removes a volume  *)
(* that has a snapshot.                                                    *)
C6_DeleteVolumeBusy ==
    pc = "done" =>
        /\ \A v \in DOMAIN pre \ DOMAIN be : SnapsOf(pre, v) = {}
        /\ last.op = "delete_volume" =>
              LET v == last.args[1].name IN
              /\ (Exists(pre, v) /\ SnapsOf(pre, v) # {}) =>
                    /\ be = pre
                    /\ last.exc # NoExc
                    /\ Unfaulted => last.exc = "exception.VolumeIsBusy"
              /\ (Exists(pre, v) /\ SnapsOf(pre, v) = {} /\ Unfaulted) =>
                    /\ last.exc = NoExc
                    /\ ~Exists(be, v)

C6_Witness ==
    /\ Done("delete_volume")
    /\ last.exc = "exception.VolumeIsBusy"
    /\ SnapsOf(be, last.args[1].name) # {}

(* C7: with layering: create_snapshot leaves the snapshot protected, and *)
(* create_volume_from_snapshot of a protected snapshot into a new volume  *)
(* clones it; delete_snapshot of a snapshot that a clone derives from     *)
(* raises SnapshotIsBusy and changes nothing; of a protected snapshot     *)
(* that no clone derives from (the clone was flattened), its unprotect    *)
(* succeeds and the snapshot is removed; no call removes a snapshot that  *)
(* a clone derives from, and every clone's parent snapshot exists.        *)
C7_SnapshotCloneLifecycle ==
    (cfg.layering /\ pc = "done") =>
        /\ \A w \in DOMAIN be :
              be[w].parent # NoParent => HasSnap(be, be[w].parent[1], be[w].parent[2])
        /\ \A v \in DOMAIN pre : \A s \in SnapsOf(pre, v) :
              ~HasSnap(be, v, s) => Children(pre, v, s) = {}
        /\ (last.op = "create_snapshot" /\ last.exc = NoExc) =>
              be[last.args[1].volume_name].snaps[last.args[1].name]
        /\ last.op = "create_volume_from_snapshot" =>
              LET w == last.args[1].name
                  v == last.args[2].volume_name
                  s == last.args[2].name
              IN (Unfaulted /\ HasSnap(pre, v, s) /\ pre[v].snaps[s] /\ ~Exists(pre, w)) =>
                    /\ last.exc = NoExc
                    /\ \E i \in Events("RBD.clone") :
                          Log[i].ok /\ Log[i].arg = <<v, s, w>>
                    /\ Exists(be, w)
                    /\ be[w].parent = IF cfg.rbd_flatten_volume_from_snapshot
                                      THEN NoParent ELSE <<v, s>>
        /\ last.op = "delete_snapshot" =>
              LET v == last.args[1].volume_name
                  s == last.args[1].name
              IN /\ (HasSnap(pre, v, s) /\ Children(pre, v, s) # {}) =>
                       /\ be = pre
                       /\ last.exc # NoExc
                       /\ Unfaulted => last.exc = "exception.SnapshotIsBusy"
                 /\ (HasSnap(pre, v, s) /\ pre[v].snaps[s] /\ Children(pre, v, s) = {}
                        /\ last.fault.at = 0) =>
                       /\ \E i \in Events("image.unprotect_snap") : Log[i].ok
                       /\ ~HasSnap(be, v, s)
                       /\ ~last.fault.closeFails => last.exc = NoExc

\* a clone derives from the snapshot and delete_snapshot is refused
C7_Witness ==
    /\ cfg.layering
    /\ Done("delete_snapshot")
    /\ last.exc = "exception.SnapshotIsBusy"
    /\ Children(be, last.args[1].volume_name, last.args[1].name) # {}

(* C9: _is_cloneable raises nothing to its caller, whatever fails on the  *)
(* way (the parse, the comparison of cluster ids, opening the image): it  *)
(* returns True or False.                                                 *)
C9_NeverRaises ==
    Done("_is_cloneable") => (last.exc = NoExc /\ last.ret \in {True, False})

\* the pool named by the location does not exist: rados.ObjectNotFound leaves
\* _is_cloneable
C9_Raises ==
    /\ Done("_is_cloneable")
    /\ Unfaulted
    /\ last.args[1] = Location(FsidLocal, PoolQ, <<"v">>, <<"s">>)
    /\ last.exc = "rados.ObjectNotFound"

(* C8 as stated: _parse_location raises ImageUnacceptable for a location *)
(* without the prefix 'rbd://', with an empty component, or with a number *)
(* of components other than four, and for any other location returns     *)
(* exactly its four components in order.                                  *)
C8_ReturnsComponents ==
    Done("_parse_location") =>
        LET scheme == last.args[2]
            comps == last.args[3]
        IN IF scheme # Prefix \/ (\E i \in 1..Len(comps) : comps[i] = <<>>) \/ Len(comps) # 4
           THEN last.exc = "exception.ImageUnacceptable"
           ELSE last.exc = NoExc /\ last.ret = comps

(* C8, amended: _parse_location raises ImageUnacceptable for a location   *)
(* without the prefix 'rbd://', with an empty component, or with a number *)
(* of components other than four, and for any other location returns its *)
(* four components in order, each URL-unquoted ('%2f' becomes '/').       *)
C8_ReturnsUnquotedComponents ==
    Done("_parse_location") =>
        LET scheme == last.args[2]
            comps == last.args[3]
        IN IF scheme # Prefix \/ (\E i \in 1..Len(comps) : comps[i] = <<>>) \/ Len(comps) # 4
           THEN last.exc = "exception.ImageUnacceptable"
           ELSE /\ last.exc = NoExc
                /\ Len(last.ret) = 4
                /\ \A i \in 1..4 : last.ret[i] = Unquote(comps[i])

\* 'rbd://v/v/v/%2f' is accepted and its snapshot component comes back as '/'
C8_Witness ==
    /\ Done("_parse_location")
    /\ last.args[1] = Prefix \o <<"v", "/", "v", "/", "v", "/", "%", "2", "f">>
    /\ last.exc = NoExc
    /\ last.ret = <<<<"v">>, <<"v">>, <<"v">>, <<"/">>>>

(* C10: a read of the stream when its offset equals the size of the     *)
(* image returns the empty string, raises nothing, makes no read of the   *)
(* image and leaves the offset; seek(0) next sets the offset to 0, and    *)
(* read() with no length after it returns the whole content of the image, *)
(* read from the image in one call, and leaves the offset at its size.    *)
C10_ReadAtEnd ==
    pc = "done" =>
        /\ (last.op = "read" /\ stream.prev.offset = Len(stream.prev.img)
               /\ last.fault.at = 0) =>
              /\ last.exc = NoExc
              /\ last.ret = <<>>
              /\ Events("image.read") = {}
              /\ stream.offset = stream.prev.offset
        /\ stream.scen = 2 => (last.exc = NoExc /\ stream.offset = 0)
        /\ (stream.scen = 3 /\ Unfaulted) =>
              /\ last.exc = NoExc
              /\ last.ret = stream.img
              /\ stream.offset = Len(stream.img)
              /\ \A i \in Events("image.read") : Log[i].ok /\ Log[i].arg = <<0, Len(stream.img)>>
              /\ Cardinality(Events("image.read")) = IF stream.img = <<>> THEN 0 ELSE 1

\* the whole session, on an image of two bytes
C10_Witness ==
    /\ pc = "done"
    /\ stream.scen = 3
    /\ Unfaulted
    /\ Len(stream.img) = 2
    /\ last.ret = stream.img
    /\ stream.offset = 2

(* C11: a read of the stream at offset o >= 0 of an image of t bytes asks *)
(* the image at most once, and for exactly (o, n): n is t - o when no     *)
(* length is given or when o + length exceeds t, and the length given     *)
(* otherwise; unless o = t, it does ask once size() has answered; a read  *)
(* that returns returns the n bytes from o on and leaves the offset at o  *)
(* plus the number of bytes it returned.                                  *)
C11_ReadLengthAndAdvance ==
    (Done("read") /\ stream.prev.offset >= 0) =>
        LET o == stream.prev.offset
            t == Len(stream.prev.img)
            length == last.args[1]
            n == IF length = <<>> THEN t - o
                 ELSE IF o + length[1] > t THEN t - o ELSE length[1]
        IN /\ Cardinality(Events("image.read")) <= 1
           /\ \A i \in Events("image.read") : Log[i].arg = <<o, n>>
           /\ (o # t /\ last.fault.at # 1) => Events("image.read") # {}
           /\ last.exc = NoExc =>
                 /\ stream.offset = o + Len(last.ret)
                 /\ o # t => (Len(last.ret) = n /\ last.ret = SubSeq(stream.img, o + 1, o + n))

\* read(3) at offset 1 of an image of two bytes: one byte is asked for and returned
C11_Witness ==
    /\ Done("read")
    /\ stream.prev.offset = 1
    /\ Len(stream.img) = 2
    /\ last.args = <<<<3>>>>
    /\ \E i \in Events("image.read") : Log[i].ok /\ Log[i].arg = <<1, 1>>
    /\ Len(last.ret) = 1
    /\ stream.offset = 2

(* C12: a seek of the stream whose origin (whence) is none of 0, 1, 2, or *)
(* whose resulting offset (k from the start, the current offset plus k,   *)
(* the size of the image plus k) would be negative, raises IOError and    *)
(* leaves the offset as it was.                                            *)
C12_SeekInputError ==
    Done("seek") =>
        LET k == last.args[1]
            whence == last.args[2]
            result == IF whence = 0 THEN k
                      ELSE IF whence = 1 THEN stream.prev.offset + k
                      ELSE Len(stream.prev.img) + k
        IN (whence \notin {0, 1, 2} \/ result < 0) =>
              (last.exc = "IOError" /\ stream.offset = stream.prev.offset)

\* seek(-1, 2) on an empty image: the offset would be -1, and what is raised
\* is AttributeError
C12_SeekEndNegative ==
    /\ Done("seek")
    /\ last.args = <<-1, 2>>
    /\ stream.img = <<>>
    /\ last.exc = "AttributeError"

(* C13: a seek of the stream accepts the origins 0, 1 and 2: it sets the  *)
(* offset to k, to the current offset plus k, to the size the image        *)
(* reports plus k, and succeeds whenever that offset is not negative.     *)
C13_SeekOrigins ==
    Done("seek") =>
        LET k == last.args[1]
            whence == last.args[2]
            result == IF whence = 0 THEN k
                      ELSE IF whence = 1 THEN stream.prev.offset + k
                      ELSE Len(stream.prev.img) + k
        IN (whence \in {0, 1, 2} /\ result >= 0) =>
              (last.exc = NoExc /\ stream.offset = result)

\* seek(0, 2): to the end of the image; AttributeError is raised and the
\* offset stays
C13_SeekEndRaises ==
    /\ Done("seek")
    /\ last.args = <<0, 2>>
    /\ Len(stream.img) = 2
    /\ stream.prev.offset = 0
    /\ last.exc = "AttributeError"
    /\ stream.offset = 0

(* C14: write(data) on the stream makes one call on the image, the write  *)
(* of data at the current offset, and no resize; the image keeps its      *)
(* size; when the write succeeds, the data stand in the image from the    *)
(* offset on, the other bytes are as before, and the offset has advanced  *)
(* by exactly len(data).                                                   *)
C14_WriteAdvances ==
    Done("write") =>
        LET o == stream.prev.offset
            data == last.args[1]
        IN /\ Len(Log) = 1
           /\ Log[1].call = "image.write"
           /\ Log[1].arg = <<data, o>>
           /\ Events("image.resize") = {}
           /\ Len(stream.img) = Len(stream.prev.img)
           /\ last.exc = NoExc =>
                 /\ stream.offset = o + Len(data)
                 /\ \A i \in 1..Len(stream.img) :
                       stream.img[i] = IF o < i /\ i <= o + Len(data) THEN data[i - o]
                                       ELSE stream.prev.img[i]

\* one byte written over the second byte of an image of two
C14_Witness ==
    /\ Done("write")
    /\ last.exc = NoExc
    /\ stream.prev.offset = 1
    /\ Len(last.args[1]) = 1
    /\ stream.img[2] = last.args[1][1]
    /\ stream.img[2] # stream.prev.img[2]
    /\ stream.offset = 2

(* C15: close() of the stream makes no call on the image (no flush, no    *)
(* close) and leaves the offset and the image as they were; the image is  *)
(* closed by the volume handle only, never by a call on the stream; once  *)
(* the handle of backup_volume / restore_backup has closed the image, the *)
(* stream makes no call on it: the close() that collects the stream does  *)
(* nothing.                                                                *)
C15_CloseIsNoOp ==
    pc = "done" =>
        /\ last.op = "close" =>
              /\ Log = <<>>
              /\ last.exc = NoExc
              /\ stream.offset = stream.prev.offset
              /\ stream.img = stream.prev.img
        /\ last.op \in {"read", "write", "seek", "tell", "flush", "fileno", "close"} =>
              Events("image.close") = {}
        /\ stream.state = "deleted" => Log = <<>>

\* the stream was read to its end, the handle closed the image, and the
\* stream was collected
C15_Witness ==
    /\ pc = "done"
    /\ stream.state = "deleted"
    /\ last.op = "close"
    /\ Log = <<>>
    /\ stream.offset = 2
    /\ Len(stream.img) = 2

(* C16: create_volume_from_snapshot clones, then flattens (only if        *)
(* rbd_flatten_volume_from_snapshot is set), then resizes (only if         *)
(* volume['size'] is not 0), each at most once and in that order, each    *)
(* step only after the steps before it succeeded; after a call that       *)
(* failed nothing is called but the release of what is open; when nothing *)
(* fails and the snapshot can be cloned, all the steps asked for are      *)
(* made; a clone that succeeded is never removed: the volume exists at    *)
(* the end, and a failure after it is raised.                             *)
C16_CloneFlattenResize ==
    Done("create_volume_from_snapshot") =>
        LET volume == last.args[1]
            snapshot == last.args[2]
            flattens == cfg.rbd_flatten_volume_from_snapshot
            clone == Events("RBD.clone")
            flat == Events("image.flatten")
            rsz == Events("image.resize")
            Succeeded(S) == \E j \in S : Log[j].ok
            Release == {"image.close", "_disconnect_from_rados", "ioctx.close",
                        "client.shutdown"}
        IN /\ Cardinality(clone) <= 1 /\ Cardinality(flat) <= 1 /\ Cardinality(rsz) <= 1
           /\ \A i \in flat : flattens /\ \E j \in clone : j < i /\ Log[j].ok
           /\ \A i \in rsz :
                 /\ volume.size # 0
                 /\ \E j \in clone : j < i /\ Log[j].ok
                 /\ flattens => \E j \in flat : j < i /\ Log[j].ok
           /\ \A i \in 1..Len(Log) :
                 ~Log[i].ok =>
                     /\ last.exc # NoExc
                     /\ \A j \in (i + 1)..Len(Log) :
                           \/ Log[j].call \in Release
                           \/ Log[j].call = "_connect_to_rados" /\ ~Log[j].ok
           /\ (Unfaulted /\ cfg.layering /\ HasSnap(pre, snapshot.volume_name, snapshot.name)
                 /\ pre[snapshot.volume_name].snaps[snapshot.name]
                 /\ ~Exists(pre, volume.name)) =>
                 /\ last.exc = NoExc
                 /\ Succeeded(clone)
                 /\ Succeeded(flat) <=> flattens
                 /\ Succeeded(rsz) <=> volume.size # 0
           /\ Succeeded(clone) =>
                 /\ Exists(be, volume.name)
                 /\ Events("RBD.remove") = {}

\* the clone was made, flatten failed: no resize, the clone is there, unflattened
C16_Witness ==
    /\ Done("create_volume_from_snapshot")
    /\ last.args[1].size # 0
    /\ \E i \in Events("RBD.clone") : Log[i].ok
    /\ \E i \in Events("image.flatten") : ~Log[i].ok
    /\ Events("image.resize") = {}
    /\ last.exc = "rbd.Error"
    /\ Exists(be, last.args[1].name)
    /\ be[last.args[1].name].parent = <<last.args[2].volume_name, last.args[2].name>>

(* C17: with layering, create_snapshot calls protect_snap on the snapshot *)
(* right after create_snap succeeded, on the same handle and before the   *)
(* handle is closed, and the snapshot a successful create_snapshot made   *)
(* exists and is protected; without layering, create_snapshot calls no    *)
(* protect_snap (and the snapshot it made is not protected).              *)
C17_SnapshotProtected ==
    Done("create_snapshot") =>
        LET v == last.args[1].volume_name
            s == last.args[1].name
        IN IF cfg.layering
           THEN /\ \A i \in Events("image.create_snap") :
                      Log[i].ok =>
                          /\ At(i + 1, "image.protect_snap")
                          /\ Log[i + 1].conn = Log[i].conn
                          /\ Log[i + 1].arg = s
                          /\ \A j \in EventsOf("image.close", Log[i].conn) : j > i + 1
                /\ \A i \in Events("image.protect_snap") :
                      At(i - 1, "image.create_snap") /\ Log[i - 1].ok
                /\ last.exc = NoExc => (HasSnap(be, v, s) /\ be[v].snaps[s])
           ELSE /\ Events("image.protect_snap") = {}
                /\ last.exc = NoExc => (HasSnap(be, v, s) /\ ~be[v].snaps[s])

\* with layering, a snapshot was made and protected
C17_Witness ==
    /\ cfg.layering
    /\ Done("create_snapshot")
    /\ last.exc = NoExc
    /\ ~HasSnap(pre, last.args[1].volume_name, last.args[1].name)
    /\ \E i \in Events("image.protect_snap") : Log[i].ok
    /\ be[last.args[1].volume_name].snaps[last.args[1].name]

(* C18: with layering, delete_snapshot calls remove_snap only right after *)
(* an unprotect_snap of the same snapshot that succeeded; when a clone    *)
(* depends on the snapshot, unprotect_snap is called and fails, no        *)
(* remove_snap is called, the snapshot still exists and is still          *)
(* protected, and the call raises (SnapshotIsBusy, unless something else  *)
(* failed as well).                                                        *)
C18_UnprotectBeforeRemove ==
    (cfg.layering /\ Done("delete_snapshot")) =>
        LET v == last.args[1].volume_name
            s == last.args[1].name
        IN /\ \A i \in Events("image.remove_snap") :
                 /\ At(i - 1, "image.unprotect_snap")
                 /\ Log[i - 1].ok
                 /\ Log[i - 1].arg = s /\ Log[i].arg = s
                 /\ Log[i - 1].conn = Log[i].conn
           /\ \A i \in Events("image.unprotect_snap") :
                 ~Log[i].ok => Events("image.remove_snap") = {}
           /\ (HasSnap(pre, v, s) /\ Children(pre, v, s) # {}) =>
                 /\ Events("image.remove_snap") = {}
                 /\ HasSnap(be, v, s) /\ be[v].snaps[s]
                 /\ last.exc # NoExc
                 /\ Unfaulted =>
                       /\ \E i \in Events("image.unprotect_snap") : ~Log[i].ok
                       /\ last.exc = "exception.SnapshotIsBusy"

\* unprotect_snap was refused for the clone: SnapshotIsBusy, no remove_snap
C18_Witness ==
    /\ cfg.layering
    /\ Done("delete_snapshot")
    /\ Unfaulted
    /\ \E i \in Events("image.unprotect_snap") : ~Log[i].ok
    /\ Events("image.remove_snap") = {}
    /\ last.exc = "exception.SnapshotIsBusy"
    /\ be[last.args[1].volume_name].snaps[last.args[1].name]

(* C19: _resize resizes the volume to the explicit size whenever one is   *)
(* given (extend_volume gives new_size GiB) and to volume['size'] GiB     *)
(* when none is given (create_volume_from_snapshot, clone_image); a       *)
(* resize changes the size of that volume and nothing else.               *)
C19_ResizeExplicitSize ==
    pc = "done" =>
        \A i \in Events("image.resize") :
            /\ last.op \in {"extend_volume", "create_volume_from_snapshot", "clone_image"}
            /\ Log[i].arg = IF last.op = "extend_volume" THEN last.args[2] * 1048576
                            ELSE last.args[1].size * 1048576
            /\ (last.op = "extend_volume" /\ Log[i].ok) =>
                  be = [pre EXCEPT ![last.args[1].name].size = Log[i].arg]

\* extend_volume of a volume of 2 GiB to new_size 0: the explicit size 0 is
\* dropped and the image resized to 2 GiB
C19_ExplicitZeroIgnored ==
    /\ Done("extend_volume")
    /\ last.args[1].size = 2
    /\ last.args[2] = 0
    /\ last.exc = NoExc
    /\ \E i \in Events("image.resize") : Log[i].ok /\ Log[i].arg = 2 * 1048576

(* C20: when the read or the write the stream makes on the image fails,   *)
(* the offset of the stream is left as it was.                            *)
C20_OffsetKeptOnFailure ==
    pc = "done" =>
        \A i \in Events("image.read") \cup Events("image.write") :
            ~Log[i].ok => stream.offset = stream.prev.offset

\* read(1) at offset 0 of an image of two bytes, the image's read fails: the
\* offset is 1
C20_ReadFailedOffsetMoved ==
    /\ Done("read")
    /\ Len(stream.img) = 2
    /\ stream.prev.offset = 0
    /\ last.args = <<<<1>>>>
    /\ \E i \in Events("image.read") : ~Log[i].ok
    /\ last.exc = "rbd.Error"
    /\ stream.offset = 1

(* C21: the offset of the stream is never negative, and every read the    *)
(* stream asks of the image lies within the image: its offset o and its   *)
(* length n have 0 <= o, 0 <= n and o + n <= the size of the image.       *)
C21_OffsetAndReadsInImage ==
    /\ stream.offset >= 0
    /\ pc = "done" =>
           \A i \in Events("image.read") :
               /\ 0 <= Log[i].arg[1]
               /\ 0 <= Log[i].arg[2]
               /\ Log[i].arg[1] + Log[i].arg[2] <= Len(stream.prev.img)

\* read(-1) at offset 0 of an image of two bytes: the image is asked for -1
\* bytes and the offset is -1
C21_NegativeLengthRead ==
    /\ Done("read")
    /\ Len(stream.prev.img) = 2
    /\ stream.prev.offset = 0
    /\ last.args = <<<<-1>>>>
    /\ \E i \in Events("image.read") : Log[i].arg = <<0, -1>>
    /\ stream.offset = -1

(* C22: no operation of the driver asks the backend to resize an image to *)
(* 0 bytes: every size passed to the image's resize is strictly positive, *)
(* whatever the size of the volume.                                       *)
C22_NoResizeToZero ==
    pc = "done" => \A i \in Events("image.resize") : Log[i].arg > 0

\* clone_image of a volume of size 0 from a cloneable location: the clone is
\* resized to 0 bytes and the call reports the volume cloned
C22_CloneImageResizesToZero ==
    /\ Done("clone_image")
    /\ last.args[1].size = 0
    /\ Unfaulted
    /\ last.ret = Cloned
    /\ \E i \in Events("image.resize") : Log[i].ok /\ Log[i].arg = 0

====
